---- MODULE Spec2Model ----
(***************************************************************************)
(* State-machine model of the YouTube upload relay (src/src/index.js):     *)
(* the POST /upload handler with its background work (runUpload,           *)
(* streamVideoToYouTube), GET /job/:id, the OAuth callback that stores a   *)
(* refresh token, and the periodic registry sweep.                         *)
(*                                                                         *)
(* Node runs one callback at a time, so every action below is the code     *)
(* that runs between two suspension points (an await or a callback         *)
(* registration) of one request; actions of different requests            *)
(* interleave freely at those points.                                      *)
(***************************************************************************)
EXTENDS Integers, Sequences, FiniteSets, TLC

\* ------------------------------------------------------------------ bounds
MaxOthers == 1    \* Spec: requests of other clients, answered at once
MaxClock == 1     \* largest value of the millisecond clock
MaxLen == 2       \* largest payload length (caller-supplied or probed)
MaxExcess == 2    \* SpecSweep: entries created beyond the retention cap
MaxEarly == 2     \* SpecSweep: requests before which an id may repeat

\* ------------------------------------------------------- program constants
K == 100              \* registry retention, "keep last 100"
maxRetries == 3       \* streamVideoToYouTube
BackoffBase == 1000   \* ms, first factor of the backoff delay
BackoffCap == 10000   \* ms, ceiling of the backoff delay

\* The creation requests followed through their whole life.  Other
\* clients' requests are those of OtherRequest and ManyRequests below.
Reqs == {1}
Lens == 1..MaxLen

\* ------------------------------------------------------------ value space
Null == "null"        \* JS null / undefined of a string-valued slot
NoLen == -1           \* JS null / undefined of a length-valued slot
NoTime == -1          \* completedAt not set (the property is absent)
NoHeader == <<>>      \* no Authorization header

RECURSIVE Pow2(_)
Pow2(n) == IF n = 0 THEN 1 ELSE 2 * Pow2(n - 1)
Min(a, b) == IF a <= b THEN a ELSE b

NullResult == [kind |-> "null"]
NullError == [kind |-> "null"]
NoJob == [status |-> Null]
NoMsg == <<>>         \* no message text
NoRes == [code |-> 0, error |-> NoMsg, message |-> NoMsg, jobId |-> <<>>, job |-> NoJob]

\* The fields of a request body/headers that the handler consults.  A field
\* the handler's path never consults is absent from the recorded request
\* (requests that differ only in such fields behave identically).
Requests ==
  [ videoUrl      : {Null, "src"},
    uploadUrl     : {Null, "supplied"},
    oauthToken    : {Null, "tokBody"},
    authHeader    : {NoHeader, <<"Bearer", "tokHdr">>},
    refresh       : {Null, "rtBody"},     \* clientId && clientSecret && refreshToken
    videoMetadata : {Null, "noSnippet", "snippet"},
    contentLength : {NoLen} \cup Lens,
    sync          : BOOLEAN ]

\* ------------------------------------------------------------------- state
VARIABLES
  clock,               \* Date.now() / new Date(), in ms ticks
  storedRefreshToken,  \* module-level let storedRefreshToken
  jobs,                \* the Map `jobs`, in insertion order: <<[id, obj], ...>>
  job,                 \* the job objects: object identity -> record
  created,             \* how many job objects were made (their numbering)
  handler              \* per request: the locals of its POST /upload call

vars == <<clock, storedRefreshToken, jobs, job, created, handler>>

\* f extended (or overwritten) at key k
Ext(f, k, v) == [x \in DOMAIN f \cup {k} |-> IF x = k THEN v ELSE f[x]]

Ev(e, n) == [ev |-> e, n |-> n]

\* The locals of one POST /upload call before the request has arrived.
NewHandler ==
  [ pc |-> "idle",
    req |-> <<>>,                  \* the request fields consulted so far
    accessToken |-> Null,
    jobId |-> <<>>,
    obj |-> 0,                     \* the `job` object of the closure
    sizeForSession |-> NoLen,
    resolvedUploadUrl |-> Null,
    resolvedContentLength |-> NoLen,
    attempt |-> 0,                 \* streamVideoToYouTube's loop counter
    lastError |-> [message |-> <<>>, statusCode |-> 0, code |-> "null"],
    trail |-> <<>>,                \* the values written to job.status, in order
    open |-> {},                   \* the attempts whose streams are not released
    res |-> NoRes,                 \* what was sent on `res`
    log |-> <<>> ]                 \* network I/O and responses, in order

\* A world is what one run-to-completion step of a handler reads and
\* writes: its locals h, the request q it was called with, and the shared
\* registry, job objects and clock.
World(h, q) ==
  [h |-> h, q |-> q, jobs |-> jobs, job |-> job, created |-> created,
   clock |-> clock, stored |-> storedRefreshToken]

\* Consult field f of the request.
Read(w, f) ==
  IF f \in DOMAIN w.h.req THEN w ELSE [w EXCEPT !.h.req = Ext(@, f, w.q[f])]

Logged(w, e, n) == [w EXCEPT !.h.log = Append(@, Ev(e, n))]

\* res.status(code).json({error, message}) followed by return
Reply(w, code, error, message) ==
  [Logged(w, "response", code) EXCEPT
     !.h.res = [NoRes EXCEPT !.code = code, !.error = error, !.message = message],
     !.h.pc = "done"]

\* res.status(code).json(job)
ReplyJob(w, code) ==
  [Logged(w, "response", code) EXCEPT
     !.h.res = [NoRes EXCEPT !.code = code, !.jobId = w.h.jobId, !.job = w.job[w.h.obj]]]

\* /^Bearer\s+/i.test(authHeader) and the token that follows the scheme
IsBearer(hdr) == Len(hdr) = 2 /\ hdr[1] = "Bearer"
BearerToken(hdr) == hdr[2]

\* jobs.get(id): the object under id, 0 when there is none
MapGet(m, id) ==
  IF \E i \in DOMAIN m : m[i].id = id
  THEN m[CHOOSE i \in DOMAIN m : m[i].id = id].obj
  ELSE 0

\* jobs.set(id, o): a Map keeps the position of a key it already holds
MapSet(m, id, o) ==
  IF \E i \in DOMAIN m : m[i].id = id
  THEN [i \in DOMAIN m |-> IF m[i].id = id THEN [id |-> id, obj |-> o] ELSE m[i]]
  ELSE Append(m, [id |-> id, obj |-> o])

\* Math.random().toString(36).slice(2, 9): the suffix of a new id.  Every
\* value that no retained id of the same millisecond carries behaves alike,
\* and the smallest such value stands for them; the other outcomes are the
\* suffixes that retained ids of that millisecond already carry.
UsedSuffixes(m, t) == {m[i].id[2] : i \in {j \in DOMAIN m : m[j].id[1] = t}}
FreshSuffix(m, t) ==
  LET used == UsedSuffixes(m, t)
      free == (0..Cardinality(used)) \ used
  IN  CHOOSE n \in free : \A k \in free : n <= k
RandomSuffixes(m, t) == {FreshSuffix(m, t)} \cup UsedSuffixes(m, t)

\* ------------------------------------------------ what the network does
\* An Error object: message, err.statusCode (0: not set), err.code (Null:
\* not set).
Err(message, statusCode, code) ==
  [message |-> message, statusCode |-> statusCode, code |-> code]
Resolved(v) == [ok |-> TRUE, value |-> v, err |-> Err(NoMsg, 0, Null)]
Rejected(e) == [ok |-> FALSE, value |-> Null, err |-> e]

TransportCodes == {"ECONNRESET", "ETIMEDOUT", "EPIPE"}

\* what the OAuth token endpoint can do to a refresh-token exchange
TokenEvents ==
  {[kind |-> "response", access_token |-> "tokExch"],
   [kind |-> "response", access_token |-> Null],
   [kind |-> "error", access_token |-> Null]}

\* getAccessTokenFromRefresh (367-407)
getAccessTokenFromRefresh(e) ==
  IF e.kind = "error" THEN Rejected(Err(<<"socket">>, 0, "ECONNRESET"))
  ELSE IF e.access_token # Null THEN Resolved(e.access_token)
  ELSE Rejected(Err(<<"No access_token in response">>, 0, Null))

\* what the source can do to the HEAD request
HeadEvents ==
  [kind : {"response"}, contentLength : {NoLen} \cup Lens, code : {Null}]
  \cup [kind : {"error"}, contentLength : {NoLen}, code : {"ECONNRESET"}]
  \cup [kind : {"timeout"}, contentLength : {NoLen}, code : {Null}]

\* A faulty variant of getContentLength: a response without Content-Length
\* resolves (with no length) instead of rejecting.
getContentLengthLenient(e) ==
  IF e.kind = "response" THEN Resolved(e.contentLength)
  ELSE IF e.kind = "timeout"
  THEN Rejected(Err(<<"HEAD request timeout">>, 0, Null))
  ELSE Rejected(Err(<<"socket">>, 0, e.code))

\* getContentLength (413-433)
getContentLength(e) ==
  IF e.kind = "response"
  THEN IF e.contentLength # NoLen
       THEN Resolved(e.contentLength)
       ELSE Rejected(Err(<<"Source URL does not provide Content-Length. Pass contentLength in the request body.">>, 0, Null))
  ELSE IF e.kind = "timeout"
  THEN Rejected(Err(<<"HEAD request timeout">>, 0, Null))
  ELSE Rejected(Err(<<"socket">>, 0, e.code))

\* what the destination can do to the session-negotiation request
SessionEvents ==
  {[kind |-> "response", location |-> "negotiated", statusCode |-> 200],
   [kind |-> "response", location |-> Null, statusCode |-> 401],
   [kind |-> "error", location |-> Null, statusCode |-> 0]}

\* createResumableSession (325-361)
createResumableSession(e) ==
  IF e.kind = "error" THEN Rejected(Err(<<"socket">>, 0, "ECONNRESET"))
  ELSE IF e.location # Null THEN Resolved(e.location)
  ELSE Rejected(Err(<<"HTTP", e.statusCode>>, 0, Null))

\* response bodies of the destination: length, whether JSON.parse accepts
\* it, and the id property of the parsed value
Bodies ==
  {[len |-> 0, json |-> FALSE, id |-> Null],      \* empty
   [len |-> 2, json |-> TRUE, id |-> Null],       \* {}
   [len |-> 14, json |-> TRUE, id |-> "vidA"]}    \* {"id":"vidA"}
Undefined == [undefined |-> TRUE]

\* the event that settles one attempt: the destination's response, the
\* source answering with an error status, an 'error' on either request or
\* on the pipe, or the download timeout
AttemptEvents ==
  [kind : {"putRes"}, statusCode : {200, 201}, body : Bodies, code : {Null}]
  \cup [kind : {"putRes"}, statusCode : {308, 403, 503},
        body : {[len |-> 0, json |-> FALSE, id |-> Null]}, code : {Null}]
  \cup [kind : {"getRes"}, statusCode : {404},
        body : {[len |-> 0, json |-> FALSE, id |-> Null]}, code : {Null}]
  \cup [kind : {"error"}, statusCode : {0},
        body : {[len |-> 0, json |-> FALSE, id |-> Null]}, code : TransportCodes]
  \cup [kind : {"timeout"}, statusCode : {0},
        body : {[len |-> 0, json |-> FALSE, id |-> Null]}, code : {Null}]

\* attemptStreamUpload (465-535): how the promise settles on event e
attemptStreamUpload(e) ==
  IF e.kind = "getRes"
  THEN Rejected(Err(<<"Failed to download video: HTTP", e.statusCode>>, 0, Null))
  ELSE IF e.kind = "timeout"
  THEN Rejected(Err(<<"Download timeout">>, 0, Null))
  ELSE IF e.kind = "error"
  THEN Rejected(Err(<<"socket">>, 0, e.code))
  ELSE IF e.statusCode = 201 \/ e.statusCode = 200
  THEN Resolved([kind |-> "result",
                 statusCode |-> e.statusCode,
                 videoId |-> IF e.body.json /\ e.body.id # Null THEN e.body.id ELSE Null,
                 rawResponse |-> IF e.body.len > 0 THEN e.body ELSE Undefined])
  ELSE IF e.statusCode = 308
  THEN Rejected(Err(<<"Upload incomplete (308), will retry">>, 308, Null))
  ELSE Rejected(Err(<<"YouTube upload failed: HTTP", e.statusCode>>, e.statusCode, Null))

\* A faulty variant of isRetryable: every failure is retried.
isRetryableAlways(err) == err.statusCode >= 0

\* A faulty variant of delay: the delay grows linearly.
delayLinear(attempt) == Min(BackoffBase * attempt, BackoffCap)

\* streamVideoToYouTube's classification and delay (449, 453)
isRetryable(err) ==
  \/ err.statusCode >= 500
  \/ err.statusCode = 308
  \/ err.code = "ECONNRESET"
  \/ err.code = "ETIMEDOUT"
delay(attempt) == Min(BackoffBase * Pow2(attempt), BackoffCap)

\* --------------------------------------------- runUpload (lines 258-290)
SetStatus(w, s) ==
  [w EXCEPT !.job[w.h.obj].status = s, !.h.trail = Append(@, s)]

\* runUpload() has settled and the response (if still due) is sent: the
\* call is over and its locals are gone.  What stays recorded of it is the
\* request body's non-credential fields, the response, the I/O log, which
\* job object it created and the statuses it wrote.
Credentials == {"oauthToken", "authHeader", "refresh"}
Over(h) ==
  [NewHandler EXCEPT
     !.pc = "done",
     !.req = [f \in DOMAIN h.req \ Credentials |-> h.req[f]],
     !.jobId = h.jobId,
     !.obj = h.obj,
     !.trail = h.trail,
     !.open = h.open,
     !.res = h.res,
     !.log = h.log]

\* A faulty variant of Settled: the response is sent but streamVideoToYouTube's
\* loop is not left, so a settled job is worked on again.
SettledRunning(w) ==
  IF w.h.req.sync
  THEN ReplyJob(w, IF w.job[w.h.obj].status = "completed" THEN 201 ELSE 500)
  ELSE w

\* the continuation of runUpload(): .then of the sync branch (292-301);
\* in async mode nothing is attached to a settled runUpload
Settled(w) ==
  LET sent == IF w.h.req.sync
              THEN ReplyJob(w, IF w.job[w.h.obj].status = "completed" THEN 201 ELSE 500)
              ELSE w
  IN  [sent EXCEPT !.h = Over(sent.h)]

\* try block succeeded (278-280)
JobCompleted(w, result) ==
  Settled([SetStatus(w, "completed") EXCEPT
                    !.job[w.h.obj].completedAt = w.clock,
                    !.job[w.h.obj].result = result])

\* A faulty variant of JobFailed: the completion time is not set.
JobFailedUntimed(w, err) ==
  Settled([SetStatus(w, "failed") EXCEPT
             !.job[w.h.obj].error =
                [kind |-> "error", message |-> err.message, code |-> err.code]])

\* catch block (281-289)
JobFailed(w, err) ==
  Settled([SetStatus(w, "failed") EXCEPT
                    !.job[w.h.obj].completedAt = w.clock,
                    !.job[w.h.obj].error =
                       [kind |-> "error", message |-> err.message, code |-> err.code]])

\* attemptStreamUpload is entered: the source GET is issued (465-471)
StartAttempt(w, n) ==
  [Logged(w, "attempt", w.h.resolvedContentLength) EXCEPT
     !.h.attempt = n, !.h.pc = "attempt", !.h.open = @ \cup {n}]

\* A faulty variant of RunUploadStart: runUpload probes the source whether
\* or not the caller supplied a length.
RunUploadStartProbing(w0) ==
  [Logged(Read(SetStatus(w0, "downloading"), "contentLength"), "probe", 0) EXCEPT
     !.h.pc = "probeRun"]

\* A faulty variant of RunUploadStart: with a supplied length the status
\* goes from pending to uploading at once.
RunUploadStartSkipping(w0) ==
  LET w1 == Read(w0, "contentLength")
      len == w1.h.req.contentLength
  IN  IF len = NoLen
      THEN [Logged(SetStatus(w1, "downloading"), "probe", 0) EXCEPT !.h.pc = "probeRun"]
      ELSE StartAttempt(
             SetStatus([w1 EXCEPT !.h.resolvedContentLength = len], "uploading"), 1)

\* runUpload up to its first suspension (258-270)
RunUploadStart(w0) ==
  LET w1 == Read(SetStatus(w0, "downloading"), "contentLength")
      len == w1.h.req.contentLength
  IN  IF len = NoLen
      THEN [Logged(w1, "probe", 0) EXCEPT !.h.pc = "probeRun"]
      ELSE StartAttempt(
             SetStatus([w1 EXCEPT !.h.resolvedContentLength = len], "uploading"), 1)

\* res.status(202).json({jobId, status: 'accepted', ...}) (309-314)
Ack(w) ==
  [Logged(w, "response", 202) EXCEPT
     !.h.res = [NoRes EXCEPT !.code = 202, !.jobId = w.h.jobId]]

\* A faulty variant of LaunchRun: the 202 is sent in sync mode too.
LaunchRunAcked(w0) == RunUploadStart(Ack(Read(w0, "sync")))

\* A faulty variant of LaunchRun: async mode starts the work before the 202.
LaunchRunWorkFirst(w0) ==
  LET w1 == Read(w0, "sync")
  IN  IF w1.h.req.sync THEN RunUploadStart(w1) ELSE Ack(RunUploadStart(w1))

\* lines 292-319: sync waits for runUpload, async answers first
LaunchRun(w0) ==
  LET w1 == Read(w0, "sync")
  IN  IF w1.h.req.sync THEN RunUploadStart(w1) ELSE RunUploadStart(Ack(w1))

\* ------------------------------------- POST /upload (lines 155-256)
\* createResumableSession is called: the negotiation request is issued
RequestSession(w) ==
  [Logged(w, "session", w.h.sizeForSession) EXCEPT !.h.pc = "session"]

\* lines 228-256, up to the first suspension
ResolveDestination(w0) ==
  LET w1 == Read(w0, "uploadUrl")
      w2 == Read(w1, "videoMetadata")
      w3 == Read(w2, "contentLength")
  IN  IF w1.h.req.uploadUrl # Null
      THEN LaunchRun([w1 EXCEPT !.h.resolvedUploadUrl = w1.h.req.uploadUrl])
      ELSE IF w2.h.req.videoMetadata # "snippet"
      THEN Reply(w2, 400, <<"Missing uploadUrl and videoMetadata.snippet">>, NoMsg)
      ELSE IF w3.h.req.contentLength = NoLen
      THEN [Logged(w3, "probe", 0) EXCEPT !.h.pc = "probeSession"]
      ELSE RequestSession([w3 EXCEPT !.h.sizeForSession = w3.h.req.contentLength])

\* lines 214-226: the id, the record, jobs.set.  rnd is Math.random's
\* suffix; d is the time that passes between Date.now() (214) and
\* new Date() (219).
CreateJob(w, rnd, d) ==
  LET id == <<w.clock, rnd>>
      o == w.created + 1
      rec == [id |-> id, status |-> "pending", createdAt |-> w.clock + d,
              completedAt |-> NoTime, result |-> NullResult, error |-> NullError]
  IN  [w EXCEPT !.clock = w.clock + d,
                !.created = o,
                !.job = Ext(@, o, rec),
                !.jobs = MapSet(@, id, o),
                !.h.obj = o,
                !.h.trail = <<"pending">>,
                !.h.jobId = id]

\* the handler once accessToken is set (207-256)
WithToken(w, tok, rnd, d) ==
  ResolveDestination(CreateJob([w EXCEPT !.h.accessToken = tok], rnd, d))

\* A faulty variant of PostUploadEntry: the record is created and registered
\* on arrival, before the request is validated.
PostUploadEntryEager(w0, rnd, d) ==
  LET w1 == CreateJob(Read(w0, "videoUrl"), rnd, d)
      w2 == Read(Read(w1, "oauthToken"), "authHeader")
      body == w2.h.req.oauthToken
      hdr == w2.h.req.authHeader
      tok == IF body # Null THEN body
             ELSE IF IsBearer(hdr) THEN BearerToken(hdr) ELSE Null
      w3 == Read(w2, "refresh")
  IN  IF w1.h.req.videoUrl = Null
      THEN Reply(w1, 400, <<"Missing required field: videoUrl">>, NoMsg)
      ELSE IF tok # Null THEN ResolveDestination([w2 EXCEPT !.h.accessToken = tok])
      ELSE IF w3.h.req.refresh # Null
      THEN [Logged(w3, "exchange", 0) EXCEPT !.h.pc = "exchBody"]
      ELSE IF w3.stored # Null
      THEN [Logged(w3, "exchange", 0) EXCEPT !.h.pc = "exchStored"]
      ELSE Reply(w3, 400, <<"Missing auth">>, NoMsg)

\* lines 169-212, up to the first suspension
PostUploadEntry(w0, rnd, d) ==
  LET w1 == Read(w0, "videoUrl")
      w2 == Read(Read(w1, "oauthToken"), "authHeader")
      body == w2.h.req.oauthToken
      hdr == w2.h.req.authHeader
      tok == IF body # Null THEN body
             ELSE IF IsBearer(hdr) THEN BearerToken(hdr) ELSE Null
      w3 == Read(w2, "refresh")
  IN  IF w1.h.req.videoUrl = Null
      THEN Reply(w1, 400, <<"Missing required field: videoUrl">>, NoMsg)
      ELSE IF tok # Null THEN WithToken(w2, tok, rnd, d)
      ELSE IF w3.h.req.refresh # Null
      THEN [Logged(w3, "exchange", 0) EXCEPT !.h.pc = "exchBody"]
      ELSE IF w3.stored # Null
      THEN [Logged(w3, "exchange", 0) EXCEPT !.h.pc = "exchStored"]
      ELSE Reply(w3, 400, <<"Missing auth">>, NoMsg)

\* ----------------------------------------------------------------- actions
\* job objects that neither the registry nor a running closure refers to
\* are gone
Collect(j, m, hs) ==
  LET live == {m[i].obj : i \in DOMAIN m} \cup {hs[r].obj : r \in DOMAIN hs}
  IN  [o \in DOMAIN j \cap live |-> j[o]]

\* a step of request r ends in world w
Commit(r, w) ==
  /\ handler' = [handler EXCEPT ![r] = w.h]
  /\ jobs' = w.jobs
  /\ job' = Collect(w.job, w.jobs, handler')
  /\ created' = w.created
  /\ clock' = w.clock
  /\ UNCHANGED storedRefreshToken

\* the requests that agree with what request r has consulted so far
Rest(r) ==
  {q \in Requests : \A f \in DOMAIN handler[r].req : q[f] = handler[r].req[f]}

Ticks == {d \in 0..1 : clock + d <= MaxClock}

Init ==
  /\ clock = 0
  /\ storedRefreshToken = Null
  /\ jobs = <<>>
  /\ job = <<>>
  /\ created = 0
  /\ handler = [r \in Reqs |-> NewHandler]

\* POST /upload arrives
PostUpload(r) ==
  /\ handler[r].pc = "idle"
  /\ \A p \in Reqs : p < r => handler[p].pc # "idle"
  /\ \E q \in Requests, rnd \in RandomSuffixes(jobs, clock), d \in Ticks :
       Commit(r, PostUploadEntry(World(handler[r], q), rnd, d))

\* the refresh-token exchange of the body's credentials settles (182-191)
ExchangeBodyDone(r) ==
  /\ handler[r].pc = "exchBody"
  /\ \E e \in TokenEvents, q \in Rest(r),
        rnd \in RandomSuffixes(jobs, clock), d \in Ticks :
       LET w == World(handler[r], q)
           got == getAccessTokenFromRefresh(e)
       IN  Commit(r, IF got.ok
                     THEN WithToken(w, got.value, rnd, d)
                     ELSE Reply(w, 400,
                                <<"Failed to get access token from refresh token">>,
                                got.err.message))

\* the exchange of the stored refresh token settles (192-205)
ExchangeStoredDone(r) ==
  /\ handler[r].pc = "exchStored"
  /\ \E e \in TokenEvents, q \in Rest(r),
        rnd \in RandomSuffixes(jobs, clock), d \in Ticks :
       LET w == World(handler[r], q)
           got == getAccessTokenFromRefresh(e)
       IN  Commit(r, IF got.ok
                     THEN WithToken(w, got.value, rnd, d)
                     ELSE Reply(w, 401,
                                <<"Stored token expired or invalid. Visit /auth/youtube again to reconnect.">>,
                                got.err.message))

\* the handler after `await getContentLength(videoUrl)` of line 240 has
\* settled on event e (238-249)
ProbeSessionSettled(w, e) ==
  LET got == getContentLength(e)
  IN  IF got.ok
      THEN RequestSession([w EXCEPT !.h.sizeForSession = got.value])
      ELSE Reply(w, 400,
                 <<"Could not get video size. Pass contentLength in body or ensure videoUrl returns Content-Length.">>,
                 got.err.message)

\* the size probe made for session negotiation settles (238-249)
ProbeSessionDone(r) ==
  /\ handler[r].pc = "probeSession"
  /\ \E e \in HeadEvents :
       Commit(r, ProbeSessionSettled(World(handler[r], handler[r].req), e))

\* session negotiation settles (248-256), then the work is launched
SessionDone(r) ==
  /\ handler[r].pc = "session"
  /\ \E e \in SessionEvents, q \in Rest(r) :
       LET w == World(handler[r], q)
           got == createResumableSession(e)
       IN  Commit(r, IF got.ok
                     THEN LaunchRun([w EXCEPT !.h.resolvedUploadUrl = got.value])
                     ELSE Reply(w, 400,
                                <<"Failed to create YouTube upload session">>,
                                got.err.message))

\* runUpload after `await getContentLength(videoUrl)` of line 265 has
\* settled on event e (264-270, or the catch block)
ProbeRunSettled(w, e) ==
  LET got == getContentLength(e)
  IN  IF got.ok
      THEN StartAttempt(
             SetStatus([w EXCEPT !.h.resolvedContentLength = got.value], "uploading"), 1)
      ELSE JobFailed(w, got.err)

\* runUpload's size probe settles (264-270, or the catch block)
ProbeRunDone(r) ==
  /\ handler[r].pc = "probeRun"
  /\ \E e \in HeadEvents :
       Commit(r, ProbeRunSettled(World(handler[r], handler[r].req), e))

\* The streams of the running attempt as event e leaves them.  A source
\* answer >= 400 rejects and returns (472-475): getRes is neither read nor
\* destroyed.  A transport error or the 60 s timer destroys the request
\* (527-533), which ends the pipeline (524); a destination response that
\* arrives once the body is through finds the pipeline finished.
Closing(w, e) ==
  IF e.kind = "getRes" THEN w ELSE [w EXCEPT !.h.open = @ \ {w.h.attempt}]

\* A faulty variant of AttemptSettled: a retryable failure is retried
\* whatever the attempt number.
AttemptSettledUnbounded(w, e) ==
  LET got == attemptStreamUpload(e)
      caught == [w EXCEPT !.h.lastError = got.err]
  IN  IF got.ok
      THEN JobCompleted(w, got.value)
      ELSE IF ~isRetryable(got.err)
      THEN JobFailed(caught, got.err)
      ELSE [Logged(caught, "delay", delay(w.h.attempt)) EXCEPT !.h.pc = "backoff"]

\* streamVideoToYouTube's loop body after `await attemptStreamUpload(...)`
\* has settled on event e (443-456), and what runUpload does with a
\* return or a throw (278-289)
AttemptSettled(w, e) ==
  LET got == attemptStreamUpload(e)
      caught == [w EXCEPT !.h.lastError = got.err]
  IN  IF got.ok
      THEN JobCompleted(w, got.value)
      ELSE IF ~isRetryable(got.err) \/ w.h.attempt = maxRetries
      THEN JobFailed(caught, got.err)
      ELSE [Logged(caught, "delay", delay(w.h.attempt)) EXCEPT !.h.pc = "backoff"]

\* an attempt settles: streamVideoToYouTube's loop body (443-456)
AttemptDone(r) ==
  /\ handler[r].pc = "attempt"
  /\ \E e \in AttemptEvents :
       Commit(r, AttemptSettled(Closing(World(handler[r], handler[r].req), e), e))

\* the backoff timer fires: attempt++ and the next attempt begins (443-445)
BackoffDone(r) ==
  /\ handler[r].pc = "backoff"
  /\ LET w == World(handler[r], handler[r].req)
     IN  Commit(r, StartAttempt(w, w.h.attempt + 1))

\* GET /auth/youtube/callback receives a refresh token (96-104)
AuthCallback ==
  /\ storedRefreshToken = Null
  /\ storedRefreshToken' = "rtStored"
  /\ UNCHANGED <<clock, jobs, job, created, handler>>

\* POST /upload by another client, answered within the handler's first
\* step by an error (its locals are not kept): the requests that carry a
\* source and a credential but neither a destination handle nor a snippet.
\* At most cap such requests are made; suffixes are Math.random's outcomes.
AnsweredAtOnce ==
  [ videoUrl      : {"src"},
    uploadUrl     : {Null},
    oauthToken    : {"tokBody"},
    authHeader    : {NoHeader},
    refresh       : {Null},
    videoMetadata : {Null, "noSnippet"},
    contentLength : {NoLen},
    sync          : {FALSE} ]

PostUploadAnswered(cap, suffixes) ==
  \E q \in AnsweredAtOnce, rnd \in suffixes, d \in Ticks :
    LET w == PostUploadEntry(World(NewHandler, q), rnd, d)
    IN  /\ w.h.pc = "done"
        /\ w.created <= cap + Cardinality({r \in Reqs : handler[r].obj # 0})
        /\ jobs' = w.jobs
        /\ job' = Collect(w.job, w.jobs, handler)
        /\ created' = w.created
        /\ clock' = w.clock
        /\ UNCHANGED <<storedRefreshToken, handler>>

OtherRequest == PostUploadAnswered(MaxOthers, RandomSuffixes(jobs, clock))

\* ------------------------------------------- the sweep (lines 537-544)
RECURSIVE SortedBy(_, _, _)
\* s in ascending order of createdAt, entries of equal createdAt in the
\* order of s (Array.prototype.sort is stable); ks are the keys of s
SortedBy(ks, s, j) ==
  IF ks = {} THEN <<>>
  ELSE LET k == CHOOSE x \in ks : \A y \in ks : x <= y
       IN  SelectSeq(s, LAMBDA e : j[e.obj].createdAt = k) \o SortedBy(ks \ {k}, s, j)

\* A faulty variant of ToDelete: the entries are not sorted, the first in
\* insertion order go.
ToDeleteUnsorted(m, j) == SubSeq(m, 1, Len(m) - K)

\* [...jobs.entries()].sort(...).slice(0, entries.length - 100)
ToDelete(m, j) ==
  LET entries == SortedBy({j[m[i].obj].createdAt : i \in DOMAIN m}, m, j)
  IN  SubSeq(entries, 1, Len(entries) - K)

\* the setInterval callback
Sweep ==
  /\ jobs' = IF Len(jobs) > K
             THEN LET del == {ToDelete(jobs, job)[i].id : i \in 1..(Len(jobs) - K)}
                  IN  SelectSeq(jobs, LAMBDA e : e.id \notin del)
             ELSE jobs
  /\ job' = Collect(job, jobs', handler)
  /\ UNCHANGED <<clock, storedRefreshToken, created, handler>>

\* time passes
Tick ==
  /\ clock < MaxClock
  /\ clock' = clock + 1
  /\ UNCHANGED <<storedRefreshToken, jobs, job, created, handler>>

Next ==
  \/ \E r \in Reqs : PostUpload(r)
  \/ \E r \in Reqs : ExchangeBodyDone(r)
  \/ \E r \in Reqs : ExchangeStoredDone(r)
  \/ \E r \in Reqs : ProbeSessionDone(r)
  \/ \E r \in Reqs : SessionDone(r)
  \/ \E r \in Reqs : ProbeRunDone(r)
  \/ \E r \in Reqs : AttemptDone(r)
  \/ \E r \in Reqs : BackoffDone(r)
  \/ OtherRequest
  \/ AuthCallback
  \/ Sweep
  \/ Tick

Spec == Init /\ [][Next]_vars

\* One job alone: the program without other clients' requests.
NextJob ==
  \/ \E r \in Reqs : PostUpload(r)
  \/ \E r \in Reqs : ExchangeBodyDone(r)
  \/ \E r \in Reqs : ExchangeStoredDone(r)
  \/ \E r \in Reqs : ProbeSessionDone(r)
  \/ \E r \in Reqs : SessionDone(r)
  \/ \E r \in Reqs : ProbeRunDone(r)
  \/ \E r \in Reqs : AttemptDone(r)
  \/ \E r \in Reqs : BackoffDone(r)
  \/ AuthCallback
  \/ Sweep
  \/ Tick

SpecJob == Init /\ [][NextJob]_vars

\* The registry under load: requests answered at once (each leaves its
\* record behind), the clock, and the sweep.  Of Math.random's outcomes
\* the fresh one is followed and, for the first MaxEarly + 1 requests, the
\* suffix of the oldest entry as well.
OldestSuffix(m, t) ==
  IF Len(m) > 0 /\ m[1].id[1] = t THEN {m[1].id[2]} ELSE {}
ManyRequests ==
  PostUploadAnswered(K + MaxExcess,
                     {FreshSuffix(jobs, clock)}
                       \cup (IF created <= MaxEarly THEN OldestSuffix(jobs, clock)
                             ELSE {}))

NextSweep ==
  \/ ManyRequests
  \/ Sweep
  \/ Tick

SpecSweep == Init /\ [][NextSweep]_vars

\* ================================================================ properties
\* GET /job/:id (134-140): the body of the answer to a poll of id, NoJob
\* for the 404
GetJob(id) ==
  LET o == MapGet(jobs, id) IN IF o = 0 THEN NoJob ELSE job[o]

InFlight == {"pending", "downloading", "uploading"}
Terminal == {"completed", "failed"}
Retained == {jobs[i].id : i \in DOMAIN jobs}

\* the work of request r is under way: its job exists and runUpload has
\* not settled
Working(r) ==
  handler[r].pc \in {"probeSession", "session", "probeRun", "attempt", "backoff"}

\* A poll made while the work is under way answers an in-flight status and
\* a record without completion time, result or error; every retained
\* record has one of the five statuses.
PollBeforeTerminal ==
  /\ \A id \in Retained :
        LET rec == GetJob(id)
        IN  /\ rec.status \in InFlight \cup Terminal
            /\ rec.status \in InFlight =>
                  /\ rec.completedAt = NoTime
                  /\ rec.result = NullResult
                  /\ rec.error = NullError
  /\ \A r \in Reqs :
        Working(r) /\ MapGet(jobs, handler[r].jobId) = handler[r].obj =>
          GetJob(handler[r].jobId).status \in InFlight

\* A step leaves the polled record of every terminal job alone, as long as
\* the registry still holds that job under its id.
TerminalFrozen ==
  \A id \in Retained :
    (GetJob(id).status \in Terminal /\ MapGet(jobs', id) = MapGet(jobs, id))
      => GetJob(id)' = GetJob(id)

\* C1: for every created job and every interleaving, a poll made before the
\* job is terminal returns a status in {pending, downloading, uploading},
\* and once the status is completed or failed every later poll of that job,
\* while it is retained, returns the same record.
C1_TerminalRecordUnchanging == []PollBeforeTerminal /\ [][TerminalFrozen]_vars

\* C1's case: a terminal job is still retained after time has passed since
\* its completion.
C1_PolledAfterTerminal ==
  \E id \in Retained :
    /\ GetJob(id).status \in Terminal
    /\ GetJob(id).completedAt < clock

\* the error texts of the rejections made after the record was registered
\* (231-255)
CreationRejections ==
  {<<"Missing uploadUrl and videoMetadata.snippet">>,
   <<"Could not get video size. Pass contentLength in body or ensure videoUrl returns Content-Length.">>,
   <<"Failed to create YouTube upload session">>}

\* C2: a creation request without uploadUrl that is rejected because the
\* snippet is missing, the size probe fails or session negotiation fails
\* is issued no job id and leaves no record in the registry.
C2_RejectionLeavesNoRecord ==
  \A r \in Reqs :
    handler[r].res.error \in CreationRejections =>
      /\ handler[r].res.jobId = <<>>
      /\ \A i \in DOMAIN jobs : jobs[i].obj # handler[r].obj

\* C2's case: request r was rejected at session negotiation and its record
\* is in the registry, pending for ever.
C2_RejectedYetRegistered ==
  \E r \in Reqs :
    /\ handler[r].res.error = <<"Failed to create YouTube upload session">>
    /\ handler[r].res.code = 400
    /\ MapGet(jobs, handler[r].jobId) = handler[r].obj
    /\ GetJob(handler[r].jobId).status = "pending"

\* the error texts of the rejections for a missing source or credential
\* (169-212)
ValidationRejections ==
  {<<"Missing required field: videoUrl">>,
   <<"Missing auth">>,
   <<"Failed to get access token from refresh token">>,
   <<"Stored token expired or invalid. Visit /auth/youtube again to reconnect.">>}

\* the step in which request r is answered with one of those rejections
RejectedForInput(r) ==
  /\ handler[r].res = NoRes
  /\ handler'[r].res.error \in ValidationRejections

\* C3: a creation request without videoUrl, or for which no access token
\* can be resolved (none supplied, or the refresh-token exchange fails),
\* is answered with an error and the registry is left unchanged: no job is
\* created.
C3_InvalidRequestCreatesNoJob ==
  [][\A r \in Reqs :
       RejectedForInput(r) =>
         /\ handler'[r].res.code \in {400, 401}
         /\ handler'[r].res.jobId = <<>>
         /\ handler'[r].obj = 0
         /\ jobs' = jobs
         /\ job' = job
         /\ created' = created]_vars

\* C3's case: a failed exchange of the stored refresh token was answered
\* while the registry held another client's record.
C3_RejectedBesideOthers ==
  \E r \in Reqs :
    /\ handler[r].res.code = 401
    /\ handler[r].res.error \in ValidationRejections
    /\ Len(jobs) > 0

\* ------------------------------------------------- retries (C4, C5)
\* the events of kinds ks in the log of request r, in order
Events(r, ks) == SelectSeq(handler[r].log, LAMBDA e : e.ev \in ks)
\* the relay of request r: its attempts and backoff delays, in order
Relay(r) == Events(r, {"attempt", "delay"})
HasJob(r) == handler[r].obj # 0
JobOf(r) == job[handler[r].obj]
FailedWith(r) == IF HasJob(r) /\ JobOf(r).status = "failed" THEN JobOf(r).error
                 ELSE NullError

\* min(1000 * 2^attempt, 10000) for attempt = 1, 2
ExpectedDelays == <<2000, 4000>>

\* the retryable failures: destination 5xx, destination 308, connection
\* reset, connection timeout
RetryableFailure(err) ==
  \/ err.statusCode \in 500..599
  \/ err.statusCode = 308
  \/ err.code \in {"ECONNRESET", "ETIMEDOUT"}

\* job errors left by a relay attempt that failed in a retryable way
RetryableJobErrors ==
  {[kind |-> "error", message |-> <<"YouTube upload failed: HTTP", 503>>, code |-> Null],
   [kind |-> "error", message |-> <<"Upload incomplete (308), will retry">>, code |-> Null],
   [kind |-> "error", message |-> <<"socket">>, code |-> "ECONNRESET"],
   [kind |-> "error", message |-> <<"socket">>, code |-> "ETIMEDOUT"]}

\* C4: if the first k < 3 relay attempts of a job fail with a retryable
\* failure (destination 5xx or 308, connection reset or timeout) and the
\* next succeeds, the job is completed after exactly k+1 attempts and k
\* backoff delays, the delays being min(1000 * 2^attempt, 10000) ms for
\* attempt = 1, 2, ...: increasing and never above 10000.  Stated on the
\* relay trace: attempts and delays alternate, a delay is taken only after
\* a retryable failure of an attempt below the third and has the expected
\* length, a retryable failure fails the job only at the third attempt,
\* and a completed job has one attempt more than delays.
C4_RetryableThenCompleted ==
  \A r \in Reqs :
    LET t == Relay(r)
        h == handler[r]
    IN  /\ Len(t) <= 2 * maxRetries - 1
        /\ \A i \in DOMAIN t :
              IF i % 2 = 1 THEN t[i].ev = "attempt"
              ELSE /\ t[i].ev = "delay"
                   /\ t[i].n = ExpectedDelays[i \div 2]
                   /\ t[i].n <= 10000
                   /\ i > 2 => t[i].n > t[i - 2].n
        /\ h.pc = "backoff" =>
              /\ RetryableFailure(h.lastError)
              /\ Len(t) = 2 * h.attempt
              /\ h.attempt < 3
        /\ h.pc = "attempt" => Len(t) = 2 * h.attempt - 1
        /\ (Len(t) > 0 /\ FailedWith(r) \in RetryableJobErrors) => Len(t) = 5
        /\ (HasJob(r) /\ JobOf(r).status = "completed") =>
              /\ h.pc = "done"
              /\ Len(t) \in {1, 3, 5}

\* C4's case: two retryable failures, two delays, then success.
C4_CompletedAtThirdAttempt ==
  \E r \in Reqs :
    /\ HasJob(r)
    /\ JobOf(r).status = "completed"
    /\ Events(r, {"delay"}) = <<Ev("delay", 2000), Ev("delay", 4000)>>
    /\ Len(Events(r, {"attempt"})) = 3

\* job errors left by a relay attempt that failed fatally: a destination
\* status other than 200/201, 308, 5xx; a source error status; a transport
\* error other than reset/timeout
FatalJobErrors ==
  {[kind |-> "error", message |-> <<"YouTube upload failed: HTTP", 403>>, code |-> Null],
   [kind |-> "error", message |-> <<"Failed to download video: HTTP", 404>>, code |-> Null],
   [kind |-> "error", message |-> <<"socket">>, code |-> "EPIPE"]}

FatalFailure(err) ==
  \/ err.statusCode \in 400..499
  \/ err.message = <<"Failed to download video: HTTP", 404>>
  \/ err.code = "EPIPE"

\* C5: a relay attempt that fails fatally (a destination status other than
\* 200/201, 308 or 5xx, such as 403, or an error class other than
\* connection reset/timeout) fails the job at that attempt, whatever its
\* number: no backoff delay follows it and no further attempt is started.
C5_FatalFailsAtOnce ==
  \A r \in Reqs :
    LET t == Relay(r)
    IN  /\ handler[r].pc = "backoff" => ~FatalFailure(handler[r].lastError)
        /\ (Len(t) > 0 /\ FailedWith(r) \in FatalJobErrors) =>
              /\ handler[r].pc = "done"
              /\ t[Len(t)].ev = "attempt"
              /\ Len(Events(r, {"delay"})) = Len(Events(r, {"attempt"})) - 1

\* C5's case: the second attempt was answered 403 and the job failed with
\* two attempts and the one delay before the second.
C5_FatalAtSecondAttempt ==
  \E r \in Reqs :
    /\ FailedWith(r) =
         [kind |-> "error", message |-> <<"YouTube upload failed: HTTP", 403>>, code |-> Null]
    /\ Relay(r) = <<Ev("attempt", 1), Ev("delay", 2000), Ev("attempt", 1)>>

\* ------------------------------------------------- modes (C6, C7)
\* request r was launched in sync mode / in async mode (292, 307)
SyncMode(r) == "sync" \in DOMAIN handler[r].req /\ handler[r].req.sync
AsyncMode(r) == "sync" \in DOMAIN handler[r].req /\ ~handler[r].req.sync

\* C6: in synchronous mode the response to the creation request is sent
\* only after the job is completed or failed and its body is the job's
\* full terminal record; when the transfer succeeds the record returned
\* has status completed and carries the identifier found in the
\* destination's response.
C6_SyncReturnsTerminalRecord ==
  \A r \in Reqs :
    SyncMode(r) =>
      /\ Working(r) => handler[r].res = NoRes
      /\ handler[r].pc = "done" =>
            LET res == handler[r].res
            IN  /\ res.job = JobOf(r)
                /\ res.job.status \in Terminal
                /\ res.code = IF res.job.status = "completed" THEN 201 ELSE 500
                /\ handler[r].log[Len(handler[r].log)] = Ev("response", res.code)
                /\ Len(Events(r, {"response"})) = 1
                /\ res.job.status = "completed" =>
                      /\ res.job.error = NullError
                      /\ res.job.result.videoId =
                            IF res.job.result.rawResponse = Undefined THEN Null
                            ELSE res.job.result.rawResponse.id

\* C6's case: a sync request answered 201 with the identifier of the
\* destination's response.
C6_SyncCompletedWithId ==
  \E r \in Reqs :
    /\ SyncMode(r)
    /\ handler[r].res.code = 201
    /\ handler[r].res.job.result.videoId = "vidA"
    /\ handler[r].res.job.result.rawResponse.id = "vidA"

\* positions in the log of request r of the 202 and of the events of kinds ks
AckAt(r) == {j \in DOMAIN handler[r].log : handler[r].log[j] = Ev("response", 202)}
Before(r, j, ks) == {i \in 1..(j - 1) : handler[r].log[i].ev \in ks}

\* C7, as the claim states it: in asynchronous mode no size probe and no
\* relay attempt of the job precedes the acknowledgment.
C7_NoProbeNoAttemptBeforeAck ==
  \A r \in Reqs : \A j \in AckAt(r) : Before(r, j, {"probe", "attempt"}) = {}

\* C7, as the code has it: in asynchronous mode no relay attempt precedes
\* the acknowledgment, and no size probe precedes it when the caller
\* supplied the destination handle or the length; when the destination is
\* negotiated for a request without length, exactly one size probe (and
\* the negotiation) precedes the acknowledgment.  A request in async mode
\* that is at work has been acknowledged.
C7_AckBeforeTransfer ==
  \A r \in Reqs :
    /\ AsyncMode(r) => AckAt(r) # {}
    /\ \A j \in AckAt(r) :
          LET q == handler[r].req
              negotiated == q.uploadUrl = Null /\ q.contentLength = NoLen
          IN  /\ AsyncMode(r)
              /\ Before(r, j, {"attempt"}) = {}
              /\ Cardinality(Before(r, j, {"probe"})) = IF negotiated THEN 1 ELSE 0
              /\ Cardinality(Before(r, j, {"session"})) =
                    IF q.uploadUrl = Null THEN 1 ELSE 0

\* C7's case: an acknowledgment that a size probe preceded.
C7_ProbedBeforeAck ==
  \E r \in Reqs : \E j \in AckAt(r) : Before(r, j, {"probe"}) # {}

\* ------------------------------------------------- size unavailable (C8)
NoLengthMessage ==
  <<"Source URL does not provide Content-Length. Pass contentLength in the request body.">>

\* request r was rejected at creation because the probe reported no length
SizeUnavailableAtCreation(r) == handler[r].res.message = NoLengthMessage
\* the job of request r failed because the deferred probe reported no length
SizeUnavailableDeferred(r) ==
  FailedWith(r) = [kind |-> "error", message |-> NoLengthMessage, code |-> Null]

SweepRan == created' = created /\ clock' = clock /\ handler' = handler

\* what a sweep leaves: with more than K entries, K of them, in their
\* order, untouched, and nothing evicted was created later than anything
\* retained; with at most K entries, everything
SweepKeepsNewest ==
  LET kept == {jobs'[k] : k \in DOMAIN jobs'}
  IN  IF Len(jobs) > K
      THEN /\ Len(jobs') = K
           /\ jobs' = SelectSeq(jobs, LAMBDA e : e \in kept)
           /\ \A k \in DOMAIN jobs' : job'[jobs'[k].obj] = job[jobs'[k].obj]
           /\ \A i \in DOMAIN jobs : \A k \in DOMAIN jobs' :
                 jobs[i] \notin kept =>
                   job[jobs[i].obj].createdAt <= job[jobs'[k].obj].createdAt
      ELSE jobs' = jobs /\ job' = job

\* C9: after a sweep that runs while the registry holds more than K = 100
\* entries the registry holds at most K entries, the K most recently
\* created ones (every evicted job was created no later than every
\* retained one); a sweep that runs while the registry holds at most K
\* entries removes nothing.
C9_SweepKeepsLastK == [][SweepRan => SweepKeepsNewest]_vars

\* C9's case: a sweep has evicted: K entries are left and the first id
\* ever issued, which stood first in the registry, is gone from there.
C9_Swept ==
  /\ Len(jobs) = K
  /\ created > K
  /\ jobs[1].id # <<0, 0>>

\* ------------------------------------------------- ids (C10)
\* C10: job ids are unique among retained jobs: a newly generated id never
\* equals the id of a job still in the registry, so inserting a new job
\* never overwrites an existing record: an id that stays in the registry
\* keeps its job object.
C10_InsertNeverOverwrites ==
  [][\A id \in Retained : MapGet(jobs', id) \in {0, MapGet(jobs, id)}]_vars

\* C10's case: the job of a followed request has lost its id to another
\* client's record.
C10_RecordOverwritten ==
  \E r \in Reqs :
    /\ HasJob(r)
    /\ MapGet(jobs, handler[r].jobId) \notin {0, handler[r].obj}

\* ------------------------------------------------- credentials (C11)
\* request r holds a resolved access token and its work is under way
TokenResolved(r) == Working(r) /\ handler[r].accessToken # Null

\* C11: credential resolution takes the first of: the bearer credential of
\* the Authorization header, the credential field of the body, the
\* exchange of the body's client id/secret/refresh credential, the
\* exchange of the stored refresh credential; with both the header and the
\* body field present, the header's credential is the one used.
C11_HeaderBeforeBodyField ==
  \A r \in Reqs :
    TokenResolved(r) =>
      LET q == handler[r].req
      IN  handler[r].accessToken =
            IF IsBearer(q.authHeader) THEN BearerToken(q.authHeader)
            ELSE IF q.oauthToken # Null THEN q.oauthToken
            ELSE "tokExch"

\* C11's case: header and body field both present, and the job works
\* with the body's credential.
C11_BodyFieldUsedDespiteHeader ==
  \E r \in Reqs :
    /\ TokenResolved(r)
    /\ IsBearer(handler[r].req.authHeader)
    /\ handler[r].req.oauthToken = "tokBody"
    /\ handler[r].accessToken = "tokBody"

\* ------------------------------------------------- download timeout (C12)
DownloadTimeout == [kind |-> "error", message |-> <<"Download timeout">>, code |-> Null]

\* C12: a relay attempt that ends by the 60 s download timeout is a
\* retryable failure like a connection reset: with fewer than 3 attempts
\* made, a backoff delay and another attempt follow; the job fails with
\* it only at the third attempt.
C12_DownloadTimeoutRetried ==
  \A r \in Reqs :
    FailedWith(r) = DownloadTimeout => Len(Events(r, {"attempt"})) = 3

\* C12's case: the first attempt timed out and the job failed at once,
\* with one attempt and no delay.
C12_TimeoutFailedAtFirstAttempt ==
  \E r \in Reqs :
    /\ FailedWith(r) = DownloadTimeout
    /\ Len(Relay(r)) = 1

\* ------------------------------------------------- redirects (C13)
\* The source answers with a redirect.  http.request / http.get do not
\* follow it: the callback receives the 3xx response itself.  A HEAD so
\* answered carries the Content-Length header of the 3xx response (none,
\* or that of its empty body); finalLength is the length of the bytes at
\* the location the redirect names.
RedirectHeadEvents ==
  [kind : {"response"}, statusCode : {302}, contentLength : {NoLen, 0},
   finalLength : Lens, code : {Null}]

\* the probe for session negotiation is answered by a redirect (238-249)
ProbeSessionRedirected(r) ==
  /\ handler[r].pc = "probeSession"
  /\ \E e \in RedirectHeadEvents :
       Commit(r, ProbeSessionSettled(
                   Logged(World(handler[r], handler[r].req), "redirect", e.finalLength), e))

\* runUpload's probe is answered by a redirect (264-270)
ProbeRunRedirected(r) ==
  /\ handler[r].pc = "probeRun"
  /\ \E e \in RedirectHeadEvents :
       Commit(r, ProbeRunSettled(
                   Logged(World(handler[r], handler[r].req), "redirect", e.finalLength), e))

\* the source GET of an attempt is answered by a redirect: its status is
\* below 400, so the 3xx response is piped into the PUT (471-524) and the
\* attempt settles by what follows
AttemptRedirected(r) ==
  /\ handler[r].pc = "attempt"
  /\ \E e \in {x \in AttemptEvents : x.kind # "getRes"} :
       Commit(r, AttemptSettled(
                   Closing(Logged(World(handler[r], handler[r].req), "piped", 302), e), e))

\* One job alone, with a source that may redirect.
NextRedirect ==
  \/ NextJob
  \/ \E r \in Reqs : ProbeSessionRedirected(r)
  \/ \E r \in Reqs : ProbeRunRedirected(r)
  \/ \E r \in Reqs : AttemptRedirected(r)

SpecRedirect == Init /\ [][NextRedirect]_vars

\* C13: redirects of the source are followed: a size probe answered by a
\* 3xx yields the length of the final location and does not fail, and the
\* relay never pipes the redirect response itself to the destination.
C13_RedirectsFollowed ==
  \A r \in Reqs :
    LET log == handler[r].log
    IN  \A i \in DOMAIN log :
          /\ log[i].ev = "redirect" =>
                /\ i < Len(log)
                /\ log[i + 1].ev \in {"session", "attempt"}
                /\ log[i + 1].n = log[i].n
          /\ log[i].ev = "piped" => log[i].n \notin 300..399

\* C13's case: a job completed whose payload was the redirect response.
C13_RedirectPagePiped ==
  \E r \in Reqs :
    /\ HasJob(r)
    /\ JobOf(r).status = "completed"
    /\ Events(r, {"piped"}) # <<>>

\* ------------------------------------------------- supplied length (C14)
\* the caller of request r supplied a length
LengthSupplied(r) ==
  /\ "contentLength" \in DOMAIN handler[r].req
  /\ handler[r].req.contentLength # NoLen

\* C14: when the caller supplies a length, that value is the one given to
\* session negotiation and declared on every relay attempt, and no HEAD
\* probe of the source is issued for the request, neither during creation
\* nor by runUpload.
C14_SuppliedLengthUsedUnprobed ==
  \A r \in Reqs :
    /\ Events(r, {"probe", "session", "attempt"}) # <<>> =>
          "contentLength" \in DOMAIN handler[r].req
    /\ LengthSupplied(r) =>
          /\ Events(r, {"probe"}) = <<>>
          /\ \A i \in DOMAIN handler[r].log :
                handler[r].log[i].ev \in {"session", "attempt"} =>
                  handler[r].log[i].n = handler[r].req.contentLength

\* C14's case: a negotiated session and three attempts, all with the
\* caller's length.
C14_SuppliedLengthThroughout ==
  \E r \in Reqs :
    /\ LengthSupplied(r)
    /\ handler[r].req.contentLength = MaxLen
    /\ Events(r, {"session"}) = <<Ev("session", MaxLen)>>
    /\ Events(r, {"attempt"}) = <<Ev("attempt", MaxLen), Ev("attempt", MaxLen), Ev("attempt", MaxLen)>>

\* ------------------------------------------------- status graph (C15)
\* the status changes of the lifecycle graph
Transitions ==
  {<<"pending", "downloading">>, <<"downloading", "uploading">>,
   <<"uploading", "completed">>}
    \cup {<<x, "failed">> : x \in InFlight}

\* the statuses written to the job of request r start with pending, each
\* follows the one before along the graph, and the last is the job's status
TrailAlongGraph ==
  \A r \in Reqs :
    LET t == handler[r].trail
    IN  IF HasJob(r)
        THEN /\ Len(t) >= 1
             /\ t[1] = "pending"
             /\ \A i \in 1..(Len(t) - 1) : <<t[i], t[i + 1]>> \in Transitions
             /\ JobOf(r).status = t[Len(t)]
        ELSE t = <<>>

\* a step only adds to the statuses written, and the status of a job
\* object changes only by such a write of the request that made it
StatusOnlyForward ==
  /\ \A r \in Reqs :
        LET t == handler[r].trail
        IN  /\ Len(handler'[r].trail) >= Len(t)
            /\ SubSeq(handler'[r].trail, 1, Len(t)) = t
  /\ \A o \in DOMAIN job \cap DOMAIN job' :
        job'[o].status # job[o].status =>
          \E r \in Reqs : handler[r].obj = o /\ handler'[r].trail # handler[r].trail

\* C15: every change of a job's status is pending->downloading,
\* downloading->uploading, uploading->completed or X->failed with X in
\* {pending, downloading, uploading}: no status is revisited, none but
\* failed is entered out of order (downloading is entered also when the
\* length was supplied), and nothing leaves completed or failed.
C15_StatusFollowsGraph == []TrailAlongGraph /\ [][StatusOnlyForward]_vars

\* C15's case: a job with a supplied length went through downloading and
\* uploading to completed.
C15_SuppliedLengthPassesDownloading ==
  \E r \in Reqs :
    /\ LengthSupplied(r)
    /\ handler[r].trail = <<"pending", "downloading", "uploading", "completed">>

\* ------------------------------------------------- record shape (C16)
\* C16: in every reachable state, for every job: result and error are
\* never both populated; result is populated only when the status is
\* completed and error only when it is failed; while the status is
\* pending, downloading or uploading both are null and completedAt is
\* unset; a completed job has result and completedAt set, a failed job has
\* error and completedAt set.
C16_ResultErrorExclusive ==
  \A o \in DOMAIN job :
    LET rec == job[o]
    IN  /\ rec.result = NullResult \/ rec.error = NullError
        /\ rec.result # NullResult => rec.status = "completed"
        /\ rec.error # NullError => rec.status = "failed"
        /\ rec.status \in InFlight =>
              /\ rec.result = NullResult
              /\ rec.error = NullError
              /\ rec.completedAt = NoTime
        /\ rec.status = "completed" =>
              /\ rec.result # NullResult
              /\ rec.completedAt \in rec.createdAt..MaxClock
        /\ rec.status = "failed" =>
              /\ rec.error # NullError
              /\ rec.completedAt \in rec.createdAt..MaxClock

\* C16's case: a failed record beside a record still pending.
C16_FailedBesidePending ==
  \E o, p \in DOMAIN job :
    /\ job[o].status = "failed"
    /\ job[o].error # NullError
    /\ job[o].completedAt > job[o].createdAt
    /\ job[p].status = "pending"

\* ------------------------------------------------- attempt ceiling (C17)
\* the relay of a job that failed every attempt in a retryable way, each
\* attempt announcing the length n
ExhaustedRelay(n) ==
  <<Ev("attempt", n), Ev("delay", 2000), Ev("attempt", n), Ev("delay", 4000),
    Ev("attempt", n)>>

\* the third attempt of request r, whatever failure ends it, ends the job
\* with that failure's error and without delay or further attempt
ThirdFailureIsFinal(r) ==
  \A e \in AttemptEvents :
    LET got == attemptStreamUpload(e)
        w == AttemptSettled(World(handler[r], handler[r].req), e)
    IN  ~got.ok =>
          /\ w.h.pc = "done"
          /\ w.job[w.h.obj].status = "failed"
          /\ w.job[w.h.obj].error =
                [kind |-> "error", message |-> got.err.message, code |-> got.err.code]
          /\ SelectSeq(w.h.log, LAMBDA x : x.ev \in {"attempt", "delay"}) = Relay(r)

\* C17: no more than 3 attempts are started for a job; when every attempt
\* fails in a retryable way there are exactly 3 attempts and 2 backoff
\* delays, no delay follows the third failure, and the job becomes failed
\* with the error of the third attempt.
C17_AtMostThreeAttempts ==
  \A r \in Reqs :
    /\ Len(Events(r, {"attempt"})) <= 3
    /\ Len(Events(r, {"delay"})) <= 2
    /\ handler[r].attempt <= 3
    /\ (handler[r].pc = "attempt" /\ handler[r].attempt = 3) => ThirdFailureIsFinal(r)
    /\ (Relay(r) # <<>> /\ FailedWith(r) \in RetryableJobErrors) =>
          Relay(r) = ExhaustedRelay(Relay(r)[1].n)

\* C17's case: three attempts ended by 503, the job failed with that error
\* after two delays.
C17_ExhaustedByRetryable ==
  \E r \in Reqs :
    /\ FailedWith(r) =
         [kind |-> "error", message |-> <<"YouTube upload failed: HTTP", 503>>, code |-> Null]
    /\ Len(Events(r, {"attempt"})) = 3
    /\ Events(r, {"delay"}) = <<Ev("delay", 2000), Ev("delay", 4000)>>

\* ------------------------------------------ streams of an attempt (C18, C19)
\* The destination answers while the pipe from the source is still running
\* (489-517): the 'end' handler of putRes resolves or rejects, and nothing
\* ends the pipeline of 524 or destroys getRes or putReq.
AttemptAnsweredEarly(r) ==
  /\ handler[r].pc = "attempt"
  /\ \E e \in {x \in AttemptEvents : x.kind = "putRes"} :
       Commit(r, AttemptSettled(World(handler[r], handler[r].req), e))

\* The transfer of an attempt that was left behind ends: the source is
\* exhausted, a peer closes, or the idle timer of 531-533 destroys the
\* request.  The promise is settled already, so nothing else changes.
PipeEnds(r) ==
  /\ \E n \in handler[r].open :
       /\ ~(handler[r].pc = "attempt" /\ handler[r].attempt = n)
       /\ handler' = [handler EXCEPT ![r].open = @ \ {n}]
  /\ UNCHANGED <<clock, storedRefreshToken, jobs, job, created>>

\* One job alone, with a destination that may answer before it has read
\* the body.
NextStreams ==
  \/ NextJob
  \/ \E r \in Reqs : AttemptAnsweredEarly(r)
  \/ \E r \in Reqs : PipeEnds(r)

SpecStreams == Init /\ [][NextStreams]_vars

\* the attempts of request r that have settled
SettledAttempts(r) ==
  {n \in 1..handler[r].attempt : ~(handler[r].pc = "attempt" /\ handler[r].attempt = n)}

\* C18: attempts of one job are strictly sequential: at no time do two
\* attempts of the same job have a transfer in progress, a new attempt's
\* streams being opened only after the previous attempt's transfer has
\* ended, also after an early 503 or 308 of the destination.
C18_AttemptsSequential ==
  \A r \in Reqs : Cardinality(handler[r].open) <= 1

\* C18's case: the second attempt has begun after a backoff while the
\* streams of the first, rejected by an early answer, are still open.
C18_SecondAttemptBesideFirst ==
  \E r \in Reqs :
    /\ handler[r].pc = "attempt"
    /\ handler[r].attempt = 2
    /\ handler[r].open = {1, 2}

\* C19: on every exit path of an attempt its streams are released by the
\* time its outcome is reported: no settled attempt holds an open stream.
C19_SettledAttemptHoldsNoStream ==
  \A r \in Reqs : handler[r].open \cap SettledAttempts(r) = {}

\* C19's case: the job has failed on the source's 404 and the response
\* stream of that attempt is still open.
C19_SourceErrorLeavesStreamOpen ==
  \E r \in Reqs :
    /\ handler[r].pc = "done"
    /\ FailedWith(r) =
         [kind |-> "error", message |-> <<"Failed to download video: HTTP", 404>>, code |-> Null]
    /\ handler[r].open = {1}

\* ------------------------------------------------- termination (C20)
\* the steps of request r that a network answer or a timer brings about
JobWork(r) ==
  \/ ExchangeBodyDone(r)
  \/ ExchangeStoredDone(r)
  \/ ProbeSessionDone(r)
  \/ SessionDone(r)
  \/ ProbeRunDone(r)
  \/ AttemptDone(r)
  \/ BackoffDone(r)

\* One job alone, every network operation and timer eventually answering,
\* failing, timing out or firing.
SpecJobLive == SpecJob /\ \A r \in Reqs : WF_vars(JobWork(r))

\* the registry holds the job of request r under its id
Registered(r) == HasJob(r) /\ MapGet(jobs, handler[r].jobId) = handler[r].obj

\* C20: provided every network operation eventually responds, errors or
\* times out, every record inserted into the registry eventually reaches
\* completed or failed; none stays pending, downloading or uploading for
\* ever.
C20_EveryRecordSettles ==
  \A r \in Reqs : Registered(r) ~> (HasJob(r) /\ JobOf(r).status \in Terminal)

\* C20's case: the size probe of request r has failed, the request is
\* answered, and its record is in the registry, pending, with no work left
\* to drive it.
C20_PendingWithoutWork ==
  \E r \in Reqs :
    /\ handler[r].pc = "done"
    /\ handler[r].res.code = 400
    /\ Events(r, {"probe"}) # <<>>
    /\ Registered(r)
    /\ JobOf(r).status = "pending"
    /\ ~ENABLED JobWork(r)

\* ------------------------------------------------- eviction (C21)
\* the requests that carry a source, a destination handle, a length and a
\* credential and ask for the asynchronous mode: acknowledged with 202 in
\* the handler's first step, the first attempt under way
DirectRequests ==
  {q \in Requests :
     /\ q.videoUrl = "src" /\ q.uploadUrl = "supplied" /\ q.oauthToken = "tokBody"
     /\ q.authHeader = NoHeader /\ q.refresh = Null /\ q.videoMetadata = Null
     /\ q.contentLength \in Lens /\ q.sync = FALSE}

\* POST /upload arrives with such a request
PostUploadDirect(r) ==
  /\ handler[r].pc = "idle"
  /\ \E q \in DirectRequests, rnd \in RandomSuffixes(jobs, clock), d \in Ticks :
       Commit(r, PostUploadEntry(World(handler[r], q), rnd, d))

\* POST /upload by other clients once the followed request has been made
\* and the clock has reached its bound, each with a fresh id
LaterRequests ==
  /\ \A r \in Reqs : handler[r].pc # "idle"
  /\ clock = MaxClock
  /\ PostUploadAnswered(K + MaxExcess, {FreshSuffix(jobs, clock)})

\* One acknowledged job and the load that follows it.
NextEvict ==
  \/ \E r \in Reqs : PostUploadDirect(r)
  \/ \E r \in Reqs : AttemptDone(r)
  \/ \E r \in Reqs : BackoffDone(r)
  \/ LaterRequests
  \/ Sweep
  \/ Tick

SpecEvict == Init /\ [][NextEvict]_vars

\* request r was acknowledged with 202 and its job is not terminal
AckedInFlight(r) ==
  /\ HasJob(r)
  /\ handler[r].res.code = 202
  /\ JobOf(r).status \in InFlight

\* C21: the sweep never evicts a job that is not terminal: an acknowledged
\* job stays pollable (GET /job/:id answers its record, not the 404) until
\* it is completed or failed, however many newer jobs are created.
C21_InFlightJobPollable ==
  \A r \in Reqs : AckedInFlight(r) => GetJob(handler[r].jobId) # NoJob

\* C21's case: the first attempt of an acknowledged job is under way, K
\* newer records fill the registry, and a poll of the job answers the 404.
C21_EvictedWhileUploading ==
  \E r \in Reqs :
    /\ AckedInFlight(r)
    /\ handler[r].pc = "attempt"
    /\ JobOf(r).status = "uploading"
    /\ Len(jobs) = K
    /\ GetJob(handler[r].jobId) = NoJob

\* ------------------------------------------------- declared length (C22)
\* C22: for a job whose destination handle the service negotiates, the
\* length advertised at session negotiation equals the length declared on
\* every transfer attempt of that job, also when the caller supplied none
\* and the answers of the source's probes change between requests.
C22_SessionLengthDeclaredOnAttempts ==
  \A r \in Reqs :
    \A i, j \in DOMAIN handler[r].log :
      (handler[r].log[i].ev = "session" /\ handler[r].log[j].ev = "attempt")
        => handler[r].log[i].n = handler[r].log[j].n

\* C22's case: no length supplied, the first probe answered 1 and the
\* session was negotiated for 1, the second probe answered 2, and the job
\* completed on an attempt that declared 2.
C22_CompletedWithOtherLength ==
  \E r \in Reqs :
    /\ HasJob(r)
    /\ JobOf(r).status = "completed"
    /\ handler[r].req.contentLength = NoLen
    /\ Len(Events(r, {"probe"})) = 2
    /\ Events(r, {"session"}) = <<Ev("session", 1)>>
    /\ Events(r, {"attempt"}) = <<Ev("attempt", 2)>>

\* ------------------------------------------------- callback order (C23)
\* the statuses by which the destination refuses the upload for good
FatalStatuses == {403}

\* The callbacks that can come first once the destination has answered
\* status s and closed the connection while the body is still being
\* written: the 'end' of putRes (492), or an 'error' of putReq (519), the
\* rejection of the pipeline (524) or an 'error' of getReq (527) with the
\* socket's error.  The first one settles the promise; reject and resolve
\* of a settled promise do nothing.
FirstCallbacks(s) ==
  {e \in AttemptEvents :
     \/ e.kind = "putRes" /\ e.statusCode = s
     \/ e.kind = "error" /\ e.code \in {"ECONNRESET", "EPIPE"}}

\* the destination answers the running attempt with a fatal status and one
\* of the callbacks comes first
AttemptRaced(r) ==
  /\ handler[r].pc = "attempt"
  /\ \E s \in FatalStatuses : \E e \in FirstCallbacks(s) :
       Commit(r, AttemptSettled(
                   Closing(Logged(World(handler[r], handler[r].req), "answered", s), e), e))

\* One job alone, with a destination that refuses and closes.
NextRace ==
  \/ NextJob
  \/ \E r \in Reqs : AttemptRaced(r)

SpecRace == Init /\ [][NextRace]_vars

\* the failure that the destination's answer s stands for
RefusedWith(s) ==
  [kind |-> "error", message |-> <<"YouTube upload failed: HTTP", s>>, code |-> Null]

\* C23: an attempt reports one outcome, classified by the destination's
\* response whatever the order of the callbacks: once the destination has
\* answered with a fatal status the job fails with that failure, and no
\* delay and no further attempt follows.
C23_FatalAnswerDecides ==
  \A r \in Reqs :
    \A i \in DOMAIN handler[r].log :
      (handler[r].log[i].ev = "answered" /\ handler[r].log[i].n \in FatalStatuses)
        => /\ FailedWith(r) = RefusedWith(handler[r].log[i].n)
           /\ \A j \in DOMAIN handler[r].log :
                 j > i => handler[r].log[j].ev \notin {"attempt", "delay"}

\* C23's case: the destination answered the first attempt with 403, the
\* connection reset was reported first, and a second attempt completed the
\* job.
C23_RetriedAfterRefusal ==
  \E r \in Reqs :
    /\ HasJob(r)
    /\ JobOf(r).status = "completed"
    /\ Events(r, {"attempt", "answered", "delay"}) =
         <<Ev("attempt", Relay(r)[1].n), Ev("answered", 403), Ev("delay", 2000),
           Ev("attempt", Relay(r)[1].n)>>
====
